---------------------------- MODULE Spec2Model ----------------------------
(***************************************************************************)
(* Model of rust-mnist (src/src/lib.rs): the IDX decoders parse_images and *)
(* parse_labels, and the loader Mnist::new that calls them on the files of *)
(* one directory and asserts the decoded headers.                          *)
(*                                                                         *)
(* Three specifications:                                                   *)
(*   SpecDecode  one file, one call of parse_images or parse_labels on it; *)
(*   Spec        one directory, one run of Mnist::new, one                 *)
(*               decode-and-validate step at a time;                       *)
(*   SpecAll     both.                                                     *)
(***************************************************************************)
EXTENDS Integers, Sequences, FiniteSets, TLC

VARIABLES
    file,      \* SpecDecode: the file handed to the decoder
    op,        \* SpecDecode: "none", or the decoder that was called
    out,       \* SpecDecode: what the call produced
    dir,       \* Spec: the directory, file name -> file
    pc,        \* Spec: "Unloaded", "Loading", "Loaded", "Failed"
    step,      \* Spec: the decode-and-validate step Mnist::new is at (1..4)
    opened,    \* Spec: the file names opened so far, in order
    seen,      \* Spec: the files those names held when they were opened
    replaced,  \* Spec: how many files were replaced during the load
    locals,    \* Spec: train_data, test_data, train_labels, test_labels so far
    failure,   \* Spec: the panic that ended the load, if any
    result     \* Spec: the Mnist value returned, if any

vars ==
    <<file, op, out, dir, pc, step, opened, seen, replaced, locals, failure,
      result>>

---------------------------------------------------------------------------
(* Constants of lib.rs.                                                    *)

TRAIN_DATA_FILENAME == "train-images-idx3-ubyte"
TEST_DATA_FILENAME == "t10k-images-idx3-ubyte"
TRAIN_LABEL_FILENAME == "train-labels-idx1-ubyte"
TEST_LABEL_FILENAME == "t10k-labels-idx1-ubyte"

IMAGES_MAGIC_NUMBER == 2051
LABELS_MAGIC_NUMBER == 2049
IMAGE_ROWS == 28
IMAGE_COLUMNS == 28

\* lib.rs:21 sets NUM_TRAIN_IMAGES to 60_000 and lib.rs:22 sets
\* NUM_TEST_IMAGES to 10_000.  Files of that size are out of reach of an
\* explicit-state check, so the two split sizes are bounds of the model.
\* NUM_TRAIN_IMAGES is at least 8 so that a well-formed train-labels file
\* (8 + NUM_TRAIN_IMAGES bytes) holds the 16 bytes of an image header, as the
\* real 60,008-byte file does.
NUM_TRAIN_IMAGES == 8
NUM_TEST_IMAGES == 2

\* The length of the fixed-size pixel buffer [u8; IMAGE_ROWS * IMAGE_COLUMNS].
ImageBufferLen == IMAGE_ROWS * IMAGE_COLUMNS

---------------------------------------------------------------------------
(* Files.  A file is described by the 4-byte big-endian words it starts    *)
(* with, its length in bytes and the first of its remaining bytes; its     *)
(* content is Bytes(f).  A missing file has exists = FALSE.                *)

\* Byte j (0 = most significant) of u32 w, as u32::to_be_bytes lays it out.
BEByte(w, j) ==
    CASE j = 0 -> (w \div 16777216) % 256
      [] j = 1 -> (w \div 65536) % 256
      [] j = 2 -> (w \div 256) % 256
      [] OTHER -> w % 256

\* The content of file f: the words, big-endian, then bytes counting up from
\* f.seed (mod 256), the whole cut to f.len bytes.
Bytes(f) ==
    [i \in 1..f.len |->
        IF i <= 4 * Len(f.words)
        THEN BEByte(f.words[((i - 1) \div 4) + 1], (i - 1) % 4)
        ELSE (f.seed + (i - 4 * Len(f.words) - 1)) % 256]

NoFile == [exists |-> FALSE, words |-> <<>>, len |-> 0, seed |-> 0]

MkFile(words, len, seed) ==
    [exists |-> TRUE, words |-> words, len |-> len, seed |-> seed]

---------------------------------------------------------------------------
(* Results of the decoders.  kind is "Ok" (the io::Result is Ok), "Err"    *)
(* (the io::Result is Err, handed to the caller) or "Panic" (an unwrap     *)
(* inside the decoder panicked).                                           *)

NoResult ==
    [kind |-> "none", error |-> "", magic_number |-> 0, num_images |-> 0,
     num_rows |-> 0, num_cols |-> 0, images |-> <<>>,
     num_labels |-> 0, labels |-> <<>>]

Err(e) == [NoResult EXCEPT !.kind = "Err", !.error = e]

Panic(e) == [NoResult EXCEPT !.kind = "Panic", !.error = e]

\* u32::from_be_bytes of the four bytes of b that follow position pos.  The
\* files of the model keep the first byte of a word below 128, so that the
\* value stays within the integers TLC computes with.
from_be_bytes(b, pos) ==
    b[pos + 1] * 16777216 + b[pos + 2] * 65536 + b[pos + 3] * 256 + b[pos + 4]

\* file.take(limit).read_exact(buf), buf of n bytes, with the file at
\* position pos: succeeds when the Take lets n bytes through and the file
\* still holds them.
read_exact_ok(b, pos, limitCoversBuf, n) ==
    limitCoversBuf /\ Len(b) - pos >= n

\* Whether num_rows * num_cols, the limit of the Take of lib.rs:234, is at
\* least n.  The product is only formed when both factors are below n, so it
\* stays small.
TakeCovers(num_rows, num_cols, n) ==
    \/ n = 0
    \/ /\ num_rows > 0
       /\ num_cols > 0
       /\ (num_rows >= n \/ num_cols >= n \/ num_rows * num_cols >= n)

\* Mutant of ReadImages: records of num_rows * num_cols bytes each, the stride
\* the header declares, instead of whole image buffers.
RECURSIVE ReadImagesDeclaredStride(_, _, _, _, _, _)
ReadImagesDeclaredStride(b, pos, remaining, num_rows, num_cols, acc) ==
    IF remaining = 0
    THEN [ok |-> TRUE, images |-> acc]
    ELSE IF Len(b) - pos < num_rows * num_cols
    THEN [ok |-> FALSE, images |-> acc]
    ELSE ReadImagesDeclaredStride(
             b, pos + num_rows * num_cols, remaining - 1, num_rows, num_cols,
             Append(acc, SubSeq(b, pos + 1, pos + num_rows * num_cols)))

\* Mutant of ReadImages: the loop body runs once before the count is tested.
RECURSIVE ReadImagesDoWhile(_, _, _, _, _, _)
ReadImagesDoWhile(b, pos, remaining, num_rows, num_cols, acc) ==
    IF ~(TakeCovers(num_rows, num_cols, ImageBufferLen)
         /\ Len(b) - pos >= ImageBufferLen)
    THEN [ok |-> FALSE, images |-> acc]
    ELSE IF remaining <= 1
    THEN [ok |-> TRUE,
          images |-> Append(acc, SubSeq(b, pos + 1, pos + ImageBufferLen))]
    ELSE ReadImagesDoWhile(
             b, pos + ImageBufferLen, remaining - 1, num_rows, num_cols,
             Append(acc, SubSeq(b, pos + 1, pos + ImageBufferLen)))

\* The loop of lib.rs:231-238: one read of a whole image_buffer per declared
\* image, the Take limited to num_rows * num_cols bytes.  The allocation of
\* Vec::with_capacity(num_images) (lib.rs:228) is taken to succeed.
RECURSIVE ReadImages(_, _, _, _, _, _)
ReadImages(b, pos, remaining, num_rows, num_cols, acc) ==
    IF remaining = 0
    THEN [ok |-> TRUE, images |-> acc]
    ELSE IF ~read_exact_ok(b, pos, TakeCovers(num_rows, num_cols, ImageBufferLen),
                           ImageBufferLen)
    THEN [ok |-> FALSE, images |-> acc]
    ELSE ReadImages(b, pos + ImageBufferLen, remaining - 1, num_rows, num_cols,
                    Append(acc, SubSeq(b, pos + 1, pos + ImageBufferLen)))

parse_images(f) ==
    IF ~f.exists THEN Err("NotFound")
    ELSE LET b == Bytes(f) IN
    IF ~read_exact_ok(b, 0, TRUE, 4) THEN Err("UnexpectedEof")
    ELSE IF ~read_exact_ok(b, 4, TRUE, 4) THEN Err("UnexpectedEof")
    ELSE IF ~read_exact_ok(b, 8, TRUE, 4) THEN Err("UnexpectedEof")
    ELSE IF ~read_exact_ok(b, 12, TRUE, 4) THEN Err("UnexpectedEof")
    ELSE LET magic_number == from_be_bytes(b, 0)
             num_images == from_be_bytes(b, 4)
             num_rows == from_be_bytes(b, 8)
             num_cols == from_be_bytes(b, 12)
             read == ReadImages(b, 16, num_images, num_rows, num_cols, <<>>)
         IN  IF ~read.ok THEN Panic("UnexpectedEof")
             ELSE [NoResult EXCEPT !.kind = "Ok",
                                   !.magic_number = magic_number,
                                   !.num_images = num_images,
                                   !.num_rows = num_rows,
                                   !.num_cols = num_cols,
                                   !.images = read.images]

\* Mutant of ReadLabels: a label above 9 is rejected.
RECURSIVE ReadLabelsRangeChecked(_, _, _, _)
ReadLabelsRangeChecked(b, pos, remaining, acc) ==
    IF remaining = 0
    THEN [ok |-> TRUE, labels |-> acc]
    ELSE IF Len(b) - pos < 1 \/ b[pos + 1] > 9
    THEN [ok |-> FALSE, labels |-> acc]
    ELSE ReadLabelsRangeChecked(b, pos + 1, remaining - 1,
                                Append(acc, b[pos + 1]))

\* The loop of lib.rs:277-284: one byte per declared label.
RECURSIVE ReadLabels(_, _, _, _)
ReadLabels(b, pos, remaining, acc) ==
    IF remaining = 0
    THEN [ok |-> TRUE, labels |-> acc]
    ELSE IF ~read_exact_ok(b, pos, TRUE, 1)
    THEN [ok |-> FALSE, labels |-> acc]
    ELSE ReadLabels(b, pos + 1, remaining - 1, Append(acc, b[pos + 1]))

parse_labels(f) ==
    IF ~f.exists THEN Err("NotFound")
    ELSE LET b == Bytes(f) IN
    IF ~read_exact_ok(b, 0, TRUE, 4) THEN Panic("UnexpectedEof")
    ELSE IF ~read_exact_ok(b, 4, TRUE, 4) THEN Panic("UnexpectedEof")
    ELSE LET magic_number == from_be_bytes(b, 0)
             num_labels == from_be_bytes(b, 4)
             read == ReadLabels(b, 8, num_labels, <<>>)
         IN  IF ~read.ok THEN Panic("UnexpectedEof")
             ELSE [NoResult EXCEPT !.kind = "Ok",
                                   !.magic_number = magic_number,
                                   !.num_labels = num_labels,
                                   !.labels = read.labels]

---------------------------------------------------------------------------
(* Mnist::new.                                                             *)

decoderVars == <<file, op, out>>

loaderVars == <<dir, pc, step, opened, seen, replaced, locals, failure, result>>

NoMnist ==
    [returned |-> FALSE, train_data |-> <<>>, test_data |-> <<>>,
     train_labels |-> <<>>, test_labels |-> <<>>]

\* A panic of Mnist::new: kind is "expect" (a decoder returned Err), "unwrap"
\* (a decoder panicked) or "assert_eq" (a header check failed, with the field
\* the message names and the left and right values assert_eq! prints).
NoFailure ==
    [kind |-> "none", step |-> 0, path |-> "", error |-> "", field |-> "",
     subject |-> "", left |-> 0, right |-> 0]

\* The four decode-and-validate steps of Mnist::new, in the order of the code:
\* the decoder called, the file name joined to mnist_path, the count the
\* assert_eq! calls expect and what their messages call the file.
StepDecoder == <<"parse_images", "parse_images", "parse_labels", "parse_labels">>

StepPath ==
    <<TRAIN_LABEL_FILENAME, TEST_DATA_FILENAME,
      TRAIN_LABEL_FILENAME, TEST_LABEL_FILENAME>>

StepCount ==
    <<NUM_TRAIN_IMAGES, NUM_TEST_IMAGES, NUM_TRAIN_IMAGES, NUM_TEST_IMAGES>>

StepSubject ==
    <<"training data", "testing data", "training labels", "testing labels">>

Decode(i, f) ==
    IF StepDecoder[i] = "parse_images" THEN parse_images(f) ELSE parse_labels(f)

\* Mutant of HeaderChecks: the assert_eq! on num_labels is missing.
HeaderChecksNoLabelCount(i, d) ==
    IF StepDecoder[i] = "parse_images"
    THEN << <<"Magic number", d.magic_number, IMAGES_MAGIC_NUMBER>>,
            <<"Number of images", d.num_images, StepCount[i]>>,
            <<"Number of rows per image", d.num_rows, IMAGE_ROWS>>,
            <<"Number of columns per image", d.num_cols, IMAGE_COLUMNS>> >>
    ELSE << <<"Magic number", d.magic_number, LABELS_MAGIC_NUMBER>> >>

\* Mutant of HeaderChecks: the assert_eq! on num_rows is missing.
HeaderChecksNoRows(i, d) ==
    IF StepDecoder[i] = "parse_images"
    THEN << <<"Magic number", d.magic_number, IMAGES_MAGIC_NUMBER>>,
            <<"Number of images", d.num_images, StepCount[i]>>,
            <<"Number of columns per image", d.num_cols, IMAGE_COLUMNS>> >>
    ELSE << <<"Magic number", d.magic_number, LABELS_MAGIC_NUMBER>>,
            <<"Number of labels", d.num_labels, StepCount[i]>> >>

\* The assert_eq! calls that follow decode i, in order: the field the message
\* names, the left (decoded) value and the right (expected) value.
HeaderChecks(i, d) ==
    IF StepDecoder[i] = "parse_images"
    THEN << <<"Magic number", d.magic_number, IMAGES_MAGIC_NUMBER>>,
            <<"Number of images", d.num_images, StepCount[i]>>,
            <<"Number of rows per image", d.num_rows, IMAGE_ROWS>>,
            <<"Number of columns per image", d.num_cols, IMAGE_COLUMNS>> >>
    ELSE << <<"Magic number", d.magic_number, LABELS_MAGIC_NUMBER>>,
            <<"Number of labels", d.num_labels, StepCount[i]>> >>

\* The first assert_eq! of step i that fails on d, as an index of
\* HeaderChecks(i, d); 0 when all pass.
FirstFailedCheck(i, d) ==
    LET checks == HeaderChecks(i, d)
        failed == {k \in 1..Len(checks) : checks[k][2] # checks[k][3]}
    IN  IF failed = {} THEN 0
        ELSE CHOOSE k \in failed : \A j \in failed : k <= j

\* The locals of Mnist::new after step i decoded d.
Bind(i, d) ==
    CASE i = 1 -> [locals EXCEPT !.train_data = d.images]
      [] i = 2 -> [locals EXCEPT !.test_data = d.images]
      [] i = 3 -> [locals EXCEPT !.train_labels = d.labels]
      [] OTHER -> [locals EXCEPT !.test_labels = d.labels]

\* Directories: each of the four file names holds one of a few files.
WellFormedImages(count, seed) ==
    MkFile(<<IMAGES_MAGIC_NUMBER, count, IMAGE_ROWS, IMAGE_COLUMNS>>,
           16 + count * ImageBufferLen, seed)

WellFormedLabels(count, seed) ==
    MkFile(<<LABELS_MAGIC_NUMBER, count>>, 8 + count, seed)

TrainImageSlot ==
    {WellFormedImages(NUM_TRAIN_IMAGES, 1),
     MkFile(<<IMAGES_MAGIC_NUMBER, NUM_TRAIN_IMAGES, 30, IMAGE_COLUMNS>>,
            16 + NUM_TRAIN_IMAGES * 30 * IMAGE_COLUMNS, 1),
     NoFile}

TrainLabelSlot ==
    {WellFormedLabels(NUM_TRAIN_IMAGES, 1),
     WellFormedLabels(NUM_TRAIN_IMAGES, 120),
     MkFile(<<LABELS_MAGIC_NUMBER, NUM_TRAIN_IMAGES>>, 8 + NUM_TRAIN_IMAGES - 1, 1),
     WellFormedImages(NUM_TRAIN_IMAGES, 1),
     MkFile(<<LABELS_MAGIC_NUMBER, NUM_TRAIN_IMAGES, IMAGE_ROWS, IMAGE_COLUMNS>>,
            16 + NUM_TRAIN_IMAGES * ImageBufferLen, 1),
     MkFile(<<IMAGES_MAGIC_NUMBER, NUM_TRAIN_IMAGES + 1, IMAGE_ROWS, IMAGE_COLUMNS>>,
            16 + (NUM_TRAIN_IMAGES + 1) * ImageBufferLen, 1),
     MkFile(<<IMAGES_MAGIC_NUMBER, NUM_TRAIN_IMAGES, 30, IMAGE_COLUMNS>>,
            16 + NUM_TRAIN_IMAGES * 30 * IMAGE_COLUMNS, 1),
     MkFile(<<IMAGES_MAGIC_NUMBER, NUM_TRAIN_IMAGES, IMAGE_ROWS, 29>>,
            16 + NUM_TRAIN_IMAGES * IMAGE_ROWS * 29, 1),
     NoFile}

TestImageSlot ==
    {WellFormedImages(NUM_TEST_IMAGES, 1),
     MkFile(<<LABELS_MAGIC_NUMBER, NUM_TEST_IMAGES, IMAGE_ROWS, IMAGE_COLUMNS>>,
            16 + NUM_TEST_IMAGES * ImageBufferLen, 1),
     MkFile(<<IMAGES_MAGIC_NUMBER, NUM_TEST_IMAGES, 30, IMAGE_COLUMNS>>,
            16 + NUM_TEST_IMAGES * 30 * IMAGE_COLUMNS, 1),
     MkFile(<<IMAGES_MAGIC_NUMBER, NUM_TEST_IMAGES, IMAGE_ROWS, IMAGE_COLUMNS>>,
            16 + NUM_TEST_IMAGES * ImageBufferLen - 1, 1),
     NoFile}

TestLabelSlot ==
    {WellFormedLabels(NUM_TEST_IMAGES, 1),
     WellFormedLabels(NUM_TEST_IMAGES + 1, 1),
     NoFile}

Directories ==
    {(TRAIN_DATA_FILENAME :> a) @@ (TEST_DATA_FILENAME :> b)
        @@ (TRAIN_LABEL_FILENAME :> c) @@ (TEST_LABEL_FILENAME :> d) :
     a \in TrainImageSlot, b \in TestImageSlot,
     c \in TrainLabelSlot, d \in TestLabelSlot}

Slot ==
    (TRAIN_DATA_FILENAME :> TrainImageSlot) @@ (TEST_DATA_FILENAME :> TestImageSlot)
        @@ (TRAIN_LABEL_FILENAME :> TrainLabelSlot)
        @@ (TEST_LABEL_FILENAME :> TestLabelSlot)

\* How many times another process replaces a file of the directory while
\* Mnist::new runs.
MaxReplacements == 1

DecoderIdle ==
    /\ file = NoFile
    /\ op = "Mnist::new"
    /\ out = NoResult

Init ==
    /\ dir \in Directories
    /\ pc = "Unloaded"
    /\ step = 0
    /\ opened = <<>>
    /\ seen = <<>>
    /\ replaced = 0
    /\ locals = NoMnist
    /\ failure = NoFailure
    /\ result = NoMnist
    /\ DecoderIdle

\* Mnist::new is called (lib.rs:44).
Begin ==
    /\ pc = "Unloaded"
    /\ pc' = "Loading"
    /\ step' = 1
    /\ UNCHANGED <<dir, opened, seen, replaced, locals, failure, result>>
    /\ UNCHANGED decoderVars

\* The environment.  The directory is not the program's: every
\* fs::File::open reads what the file system holds at that moment, and
\* between two opens of Mnist::new another process may replace one of the
\* four files.  Runs with replaced = 0 are the loads of an untouched
\* directory.
ReplaceFile ==
    /\ pc = "Loading"
    /\ replaced < MaxReplacements
    /\ \E name \in DOMAIN dir :
          \E f \in Slot[name] :
             /\ f # dir[name]
             /\ dir' = [dir EXCEPT ![name] = f]
    /\ replaced' = replaced + 1
    /\ UNCHANGED <<pc, step, opened, seen, locals, failure, result>>
    /\ UNCHANGED decoderVars

\* One decode and the assert_eq! calls on its header.  An Err of the decoder
\* panics in expect, a panic of the decoder unwinds through Mnist::new, a
\* failed assert_eq! panics; after the fourth step the Mnist is returned
\* (lib.rs:145-150).
DecodeAndValidate ==
    /\ pc = "Loading"
    /\ step \in 1..4
    \* d is the one result of the step's decoder call
    /\ \E d \in {Decode(step, dir[StepPath[step]])} :
       LET path == StepPath[step]
           k == FirstFailedCheck(step, d)
       IN  /\ opened' = Append(opened, path)
           /\ seen' = Append(seen, dir[path])
           /\ IF d.kind = "Err"
              THEN /\ pc' = "Failed"
                   /\ failure' = [NoFailure EXCEPT !.kind = "expect",
                                     !.step = step, !.path = path,
                                     !.error = d.error]
                   /\ UNCHANGED <<step, locals, result>>
              ELSE IF d.kind = "Panic"
              THEN /\ pc' = "Failed"
                   /\ failure' = [NoFailure EXCEPT !.kind = "unwrap",
                                     !.step = step, !.path = path,
                                     !.error = d.error]
                   /\ UNCHANGED <<step, locals, result>>
              ELSE IF k # 0
              THEN /\ pc' = "Failed"
                   /\ failure' = [NoFailure EXCEPT !.kind = "assert_eq",
                                     !.step = step, !.path = path,
                                     !.subject = StepSubject[step],
                                     !.field = HeaderChecks(step, d)[k][1],
                                     !.left = HeaderChecks(step, d)[k][2],
                                     !.right = HeaderChecks(step, d)[k][3]]
                   /\ UNCHANGED <<step, locals, result>>
              ELSE /\ locals' = Bind(step, d)
                   /\ UNCHANGED failure
                   /\ IF step = 4
                      THEN /\ pc' = "Loaded"
                           /\ result' = [Bind(step, d) EXCEPT !.returned = TRUE]
                           /\ UNCHANGED step
                      ELSE /\ step' = step + 1
                           /\ UNCHANGED <<pc, result>>
    /\ UNCHANGED <<dir, replaced>>
    /\ UNCHANGED decoderVars

Next == Begin \/ DecodeAndValidate \/ ReplaceFile

Spec == Init /\ [][Next]_vars

---------------------------------------------------------------------------
(* Claims about Mnist::new, checked under Spec.                            *)

\* The file each split is meant to be decoded from, by step.
CanonicalFile ==
    <<TRAIN_DATA_FILENAME, TEST_DATA_FILENAME,
      TRAIN_LABEL_FILENAME, TEST_LABEL_FILENAME>>

Terminal == pc \in {"Loaded", "Failed"}

\* On a directory nobody touches during the load, Mnist::new never returns:
\* its first and third steps read the same file, which cannot start with both
\* magic numbers.
NeverLoaded == replaced = 0 => pc # "Loaded"

\* C1: each of the four splits is decoded from its own canonical file (train
\* images, test images, train labels, test labels), so the paths opened
\* during one load are pairwise distinct.
C1_CanonicalFiles ==
    /\ \A i \in 1..Len(opened) : opened[i] = CanonicalFile[i]
    /\ \A i, j \in 1..Len(opened) : i # j => opened[i] # opened[j]

\* The records of an image file and of a label file, in file order.
ImageRecords(f) ==
    [k \in 1..f.words[2] |->
        SubSeq(Bytes(f), 16 + (k - 1) * 784 + 1, 16 + k * 784)]

LabelRecords(f) == [k \in 1..f.words[2] |-> Bytes(f)[8 + k]]

WellFormedDir ==
    /\ dir[TRAIN_DATA_FILENAME] = WellFormedImages(NUM_TRAIN_IMAGES, 1)
    /\ dir[TEST_DATA_FILENAME] = WellFormedImages(NUM_TEST_IMAGES, 1)
    /\ dir[TRAIN_LABEL_FILENAME]
           \in {WellFormedLabels(NUM_TRAIN_IMAGES, s) : s \in {1, 120}}
    /\ dir[TEST_LABEL_FILENAME] = WellFormedLabels(NUM_TEST_IMAGES, 1)

\* C2: on a directory of four well-formed files the load ends Loaded, and the
\* dataset returned holds the records of the four files in file order.
C2_WellFormedLoads ==
    (WellFormedDir /\ replaced = 0 /\ Terminal)
    => /\ pc = "Loaded"
       /\ result.returned
       /\ result.train_data = ImageRecords(dir[TRAIN_DATA_FILENAME])
       /\ result.test_data = ImageRecords(dir[TEST_DATA_FILENAME])
       /\ result.train_labels = LabelRecords(dir[TRAIN_LABEL_FILENAME])
       /\ result.test_labels = LabelRecords(dir[TEST_LABEL_FILENAME])

\* Whether the file the i-th step opened decodes and carries the header the
\* loader expects at that step: for an image step magic 2051, the split size
\* and 28x28 with all the records there, for a label step magic 2049 and the
\* split size with all the labels there.
StepPassed(i) ==
    LET f == seen[i]
        size == IF i \in {1, 3} THEN NUM_TRAIN_IMAGES ELSE NUM_TEST_IMAGES
    IN  /\ f.exists
        /\ IF i \in {1, 2}
           THEN /\ f.words = <<2051, size, 28, 28>>
                /\ f.len >= 16 + 784 * size
           ELSE /\ Len(f.words) >= 2
                /\ f.words[1] = 2049
                /\ f.words[2] = size
                /\ f.len >= 8 + size

C3_State ==
    /\ Len(opened) <= 4
    /\ \A i \in 1..(Len(opened) - 1) : StepPassed(i)
    /\ pc = "Loaded" => Len(opened) = 4 /\ StepPassed(4) /\ result.returned
    /\ pc = "Failed" => /\ ~StepPassed(Len(opened))
                        /\ failure.step = Len(opened)
                        /\ failure.kind \in {"expect", "unwrap", "assert_eq"}
    /\ pc # "Loaded" => result = NoMnist

\* C3: Loaded is reached only after all four decode-and-validate steps have
\* succeeded; the first decode or header check that fails ends the load in
\* Failed, which is terminal: no later step runs and no dataset is returned.
C3_FirstFailureWins ==
    /\ []C3_State
    /\ [][pc = "Failed" => UNCHANGED vars]_vars

\* C3's case: the second step failed after the first passed; the files of the
\* third and fourth steps are there and were not opened.
C3_Witness ==
    /\ pc = "Failed"
    /\ failure.step = 2
    /\ Len(opened) = 2
    /\ dir[TRAIN_LABEL_FILENAME].exists
    /\ dir[TEST_LABEL_FILENAME].exists
    /\ result = NoMnist

\* C4: every dataset returned has as many training images as training labels
\* and as many test images as test labels, and each image buffer is 784 bytes
\* long.
C4_DatasetShape ==
    result.returned
    => /\ Len(result.train_data) = Len(result.train_labels)
       /\ Len(result.test_data) = Len(result.test_labels)
       /\ \A k \in 1..Len(result.train_data) : Len(result.train_data[k]) = 784
       /\ \A k \in 1..Len(result.test_data) : Len(result.test_data[k]) = 784

\* C4's case: a dataset with images and labels in both splits was returned.
C4_Witness ==
    /\ pc = "Loaded"
    /\ result.returned
    /\ Len(result.train_data) > 0
    /\ Len(result.test_labels) > 0

\* The header fields of an image file, as the loader's messages name them,
\* with the values the loader expects of the train-images file.
TrainImageFields ==
    << <<"Magic number", 2051>>, <<"Number of images", NUM_TRAIN_IMAGES>>,
       <<"Number of rows per image", 28>>,
       <<"Number of columns per image", 28>> >>

\* C7: when a header field of the train-images file differs from the expected
\* constant (rows = 30, say) the load fails with a mismatch that names that
\* field with its expected and its actual value, and returns no dataset.
\* Stated for directories whose other three files are well-formed.
C7_MismatchNamesField ==
    LET f == dir[TRAIN_DATA_FILENAME]
        off == {k \in 1..4 : f.words[k] # TrainImageFields[k][2]}
    IN  (/\ Terminal
         /\ replaced = 0
         /\ dir[TEST_DATA_FILENAME] = WellFormedImages(NUM_TEST_IMAGES, 1)
         /\ dir[TRAIN_LABEL_FILENAME] = WellFormedLabels(NUM_TRAIN_IMAGES, 1)
         /\ dir[TEST_LABEL_FILENAME] = WellFormedLabels(NUM_TEST_IMAGES, 1)
         /\ f.exists
         /\ Len(f.words) = 4
         /\ f.len >= 16
         /\ off # {})
        => /\ pc = "Failed"
           /\ result = NoMnist
           /\ failure.kind = "assert_eq"
           /\ failure.subject = "training data"
           /\ \E k \in off :
                 /\ failure.field = TrainImageFields[k][1]
                 /\ failure.right = TrainImageFields[k][2]
                 /\ failure.left = f.words[k]

---------------------------------------------------------------------------
(* SpecDecode: one file, one decoder call.                                 *)

\* The largest record count a decoder input declares.
MaxCount == 2

\* Row and column counts the image headers declare: products below, at and
\* above the 784 bytes of the pixel buffer.
RowValues == {0, 2, 28, 30}
ColValues == {2, 28, 29}

\* Seeds of the record bytes: 1 gives 1, 2, 3, ...; 120 gives label values
\* outside 0..9.
Seeds == {1, 120}

\* The lengths tried for a file whose header takes hdr bytes and declares
\* count records of rec bytes: short headers, the declared length, the length
\* a 784-byte stride needs, and one byte either side of each.
Lengths(hdr, count, rec) ==
    LET declared == hdr + count * rec
        strided == hdr + count * ImageBufferLen
    IN  {n \in {0, 3, hdr - 1, hdr, declared - 1, declared, declared + 1,
                strided - 1, strided, strided + 1} : n >= 0}

ImageFiles ==
    UNION {
        {MkFile(<<IMAGES_MAGIC_NUMBER, c, r, k>>, n, s) :
            n \in Lengths(16, c, r * k), s \in Seeds} :
        <<c, r, k>> \in (0..MaxCount) \X RowValues \X ColValues}

LabelFiles ==
    UNION {
        {MkFile(<<LABELS_MAGIC_NUMBER, c>>, n, s) :
            n \in {m \in {0, 3, 7, 8, 8 + c - 1, 8 + c, 8 + c + 1} : m >= 0},
            s \in Seeds} :
        c \in 0..MaxCount}

DecoderInputs == ImageFiles \cup LabelFiles \cup {NoFile}

LoaderIdle ==
    /\ dir = <<>>
    /\ pc = "none"
    /\ step = 0
    /\ opened = <<>>
    /\ seen = <<>>
    /\ replaced = 0
    /\ locals = NoMnist
    /\ failure = NoFailure
    /\ result = NoMnist

InitDecode ==
    /\ file \in DecoderInputs
    /\ op = "none"
    /\ out = NoResult
    /\ LoaderIdle

ParseImages ==
    /\ op = "none"
    /\ op' = "parse_images"
    /\ out' = parse_images(file)
    /\ UNCHANGED file
    /\ UNCHANGED loaderVars

ParseLabels ==
    /\ op = "none"
    /\ op' = "parse_labels"
    /\ out' = parse_labels(file)
    /\ UNCHANGED file
    /\ UNCHANGED loaderVars

NextDecode == ParseImages \/ ParseLabels

SpecDecode == InitDecode /\ [][NextDecode]_vars

SpecAll == (InitDecode \/ Init) /\ [][NextDecode \/ Next]_vars

---------------------------------------------------------------------------
(* Claims about the decoders, checked under SpecDecode.                    *)

\* The header an image-format input was written with.
IsImageInput == file.exists /\ Len(file.words) = 4
IsLabelInput == file.exists /\ Len(file.words) = 2
DeclCount == file.words[2]
DeclRecLen == file.words[3] * file.words[4]

\* C5: decoding an image file made of a header (magic, count, rows, cols)
\* and count records of rows*cols bytes returns the four header values and
\* exactly count buffers, buffer k holding the rows*cols bytes of record k,
\* whatever the shape (stated here for records of at least one byte).
C5_ImageRoundTrip ==
    (/\ op = "parse_images"
     /\ IsImageInput
     /\ DeclRecLen > 0
     /\ file.len = 16 + DeclCount * DeclRecLen)
    => /\ out.kind = "Ok"
       /\ out.magic_number = file.words[1]
       /\ out.num_images = DeclCount
       /\ out.num_rows = file.words[3]
       /\ out.num_cols = file.words[4]
       /\ Len(out.images) = DeclCount
       /\ \A k \in 1..DeclCount :
              out.images[k] = SubSeq(Bytes(file), 16 + (k - 1) * DeclRecLen + 1,
                                     16 + k * DeclRecLen)

\* C6: an image file shorter than 16 + image_count*rows*cols bytes, or a
\* label file shorter than 8 + label_count bytes, makes the decoder fail and
\* return no block.
C6_TruncatedNeverOutput ==
    /\ (/\ op = "parse_images"
        /\ IsImageInput
        /\ file.len < 16 + DeclCount * DeclRecLen)
       => out.kind \in {"Err", "Panic"}
    /\ (/\ op = "parse_labels"
        /\ IsLabelInput
        /\ file.len < 8 + DeclCount)
       => out.kind \in {"Err", "Panic"}

\* C8: an image file whose header declares count = 0 decodes without error to
\* an empty image sequence and the four header values as written, for every
\* rows and cols; a label file declaring count = 0 decodes without error to
\* an empty label sequence.
C8_ZeroCount ==
    /\ (/\ op = "parse_images"
        /\ IsImageInput
        /\ DeclCount = 0
        /\ file.len >= 16)
       => /\ out.kind = "Ok"
          /\ out.images = <<>>
          /\ <<out.magic_number, out.num_images, out.num_rows, out.num_cols>>
                 = file.words
    /\ (/\ op = "parse_labels"
        /\ IsLabelInput
        /\ DeclCount = 0
        /\ file.len >= 8)
       => /\ out.kind = "Ok"
          /\ out.labels = <<>>
          /\ <<out.magic_number, out.num_labels>> = file.words

\* C8's case: a zero-count image file whose declared shape is not 28x28 has
\* been decoded.
C8_Witness ==
    /\ op = "parse_images"
    /\ IsImageInput
    /\ DeclCount = 0
    /\ file.len >= 16
    /\ DeclRecLen # ImageBufferLen
    /\ out.kind = "Ok"

\* C9: for a label file of length 8 + label_count, parse_labels returns the
\* magic number and the count of the header and exactly label_count labels,
\* label k being byte 8+k of the file, whatever its value; and the labels of
\* a dataset Mnist::new returns are the label bytes of the files it opened,
\* whatever their values.  Checked under SpecAll.
C9_LabelDecoder ==
    /\ (/\ op = "parse_labels"
        /\ IsLabelInput
        /\ file.len = 8 + DeclCount)
       => /\ out.kind = "Ok"
          /\ out.magic_number = file.words[1]
          /\ out.num_labels = DeclCount
          /\ Len(out.labels) = DeclCount
          /\ \A k \in 0..(DeclCount - 1) :
                 out.labels[k + 1] = Bytes(file)[8 + k + 1]
    /\ result.returned
       => /\ result.train_labels = LabelRecords(seen[3])
          /\ result.test_labels = LabelRecords(seen[4])

\* C9's case: a dataset was returned whose training labels hold a value
\* outside 0..9.
C9_Witness ==
    /\ result.returned
    /\ \E k \in 1..Len(result.train_labels) : result.train_labels[k] > 9

\* C9's case at the decoder: a label file holding a value outside 0..9 has
\* been decoded and the value is among the labels returned.
C9_DecoderWitness ==
    /\ op = "parse_labels"
    /\ IsLabelInput
    /\ file.len = 8 + DeclCount
    /\ out.kind = "Ok"
    /\ \E k \in 1..Len(out.labels) : out.labels[k] > 9

\* C10: parse_images reads image records with a fixed stride of 784 bytes.
\* With rows*cols >= 784 and at least 16 + 784*count bytes in the file it
\* succeeds and image k is file bytes [16 + 784*k, 16 + 784*(k+1)); with
\* rows*cols < 784 and count > 0 it fails, whatever the file's length.
C10_FixedStride ==
    (op = "parse_images" /\ IsImageInput /\ file.len >= 16)
    => /\ (DeclRecLen >= 784 /\ file.len >= 16 + 784 * DeclCount)
          => /\ out.kind = "Ok"
             /\ Len(out.images) = DeclCount
             /\ \A k \in 0..(DeclCount - 1) :
                    out.images[k + 1]
                        = SubSeq(Bytes(file), 16 + 784 * k + 1, 16 + 784 * (k + 1))
       /\ (DeclRecLen < 784 /\ DeclCount > 0) => out.kind = "Panic"

\* C10's case: a file declaring records longer than 784 bytes, and more than
\* one of them, has been decoded.
C10_Witness ==
    /\ op = "parse_images"
    /\ IsImageInput
    /\ DeclRecLen > 784
    /\ DeclCount >= 2
    /\ out.kind = "Ok"

===========================================================================
